---- MODULE Spec2Model ----
(***************************************************************************)
(* Model of the Chime SDK video-call backend (Express server, the file     *)
(* src/unnamed/part_001).  Every HTTP handler is an async function: it     *)
(* runs synchronously up to an `await chimeClient.send(...)` or            *)
(* `await mediaClient.send(...)`, is suspended while the provider works,   *)
(* and resumes as one synchronous step when the provider answers.  Other   *)
(* handlers run in between.  One action models one such synchronous run.   *)
(* The second part models one browser client (src/frontend/src/App.jsx):   *)
(* its join, the presence handler it subscribes and its notification queue. *)
(***************************************************************************)
EXTENDS Integers, Sequences, FiniteSets, TLC

\* ------------------------------------------------------------------ bounds
\* Number of HTTP requests the clients issue in one run.
MaxReqs == 4
\* Number of provider calls that may fail in one run.
MaxFailures == 1
\* Number of presence events the provider delivers to the client in one run.
MaxEvents == 2
\* Number of HTTP requests in one run of the client specification.
MaxClientReqs == 3
\* Number of times the client's clock (Date.now()) advances in one run.
MaxTicks == 2
\* Number of notification timers pending at one time.
MaxPending == 2
\* Number of HTTP requests in one run of the specification with several titles.
MaxTitleReqs == 3

\* ------------------------------------------------------------------ inputs
\* The titles the meeting table can hold, and those the requests of Spec use.
\* A request without a title reads and writes meetings[undefined], which in
\* JavaScript is the property named "undefined".
MissingTitleKey == "undefined"
Rooms == {"ROOM1", "ROOM2", MissingTitleKey}
Titles == {"ROOM1"}
Names == {"Alice", "Bob"}
Modes == {"raw", "grid"}
Reqs == 1..MaxReqs

\* ------------------------------------------------- JavaScript value encoding
\* meetings[title] of a title that has no entry (const meetings = {}).
NoMeeting == [meeting |-> 0]
\* A MeetingData field that was never assigned: { meeting, attendees: {} }.
Undefined == 0
\* meetings[title].pipelineId = null
Null == -1
\* if (x) / if (!x) on a pipelineId: undefined and null are falsy, an id is not.
Truthy(x) == x # Undefined /\ x # Null
\* const meetings = {} : the empty attendees object / roster.
EmptyRoster == <<>>

VARIABLES
    meetings,        \* the in-memory table: title -> MeetingData or NoMeeting
    req,             \* the HTTP requests: position, locals and response of each
    chimeMeetings,   \* provider: meetings created; MeetingId i has ExternalMeetingId chimeMeetings[i]
    chimeAttendees,  \* provider: attendees created; AttendeeId i belongs to MeetingId chimeAttendees[i]
    pipelines,       \* provider: capture pipelines created; MediaPipelineId i is pipelines[i]
    recLog,          \* history: per title, the successful start/stop responses in order
    failures,        \* number of provider calls that have failed so far
    client,          \* the browser client: phase, join request, closure of initializeChime
    attendeeRoster,  \* the client's React state attendeeRoster
    handlers,        \* presence handlers of the client suspended in their roster fetch
    notifications,   \* the client's React state notifications
    timers,          \* the pending setTimeout callbacks of showNotification
    clock,           \* Date.now() at the client, and how often it has advanced
    left,            \* provider: the attendees that have left their meeting
    delivered        \* the presence events the provider has delivered to the client, in order

serverVars == <<meetings, req, chimeMeetings, chimeAttendees, pipelines, recLog, failures>>
clientVars == <<client, attendeeRoster, handlers, notifications, timers, clock, left, delivered>>
vars == <<meetings, req, chimeMeetings, chimeAttendees, pipelines, recLog, failures,
          client, attendeeRoster, handlers, notifications, timers, clock, left, delivered>>

NoBody == [meeting |-> 0, attendee |-> 0, roster |-> EmptyRoster, pipelineId |-> 0]

IdleReq == [op |-> "none", pc |-> "idle", title |-> "", name |-> "", mode |-> "",
            meeting |-> 0, pipe |-> 0, sent |-> {}, status |-> 0, body |-> NoBody]

\* res.json(...) / res.status(code).json(...): the handler's answer.
Respond(r, code, b) == [r EXCEPT !.pc = "done", !.status = code, !.body = b]

\* Requests arrive one after another: slot i is used once slot i-1 has been.
CanArrive(i) == req[i].pc = "idle" /\ \A j \in 1..(i - 1) : req[j].pc # "idle"

\* The client before it joins: the join form is shown, no session exists.
FormClient == [phase |-> "form", roomId |-> "ROOM1", name |-> "Alice", joinSlot |-> 0, me |-> 0,
               meeting |-> 0, closureRoster |-> EmptyRoster,
               isRecording |-> FALSE, recSlot |-> 0, recWas |-> FALSE]

Init ==
    /\ meetings = [t \in Rooms |-> NoMeeting]
    /\ req = [i \in Reqs |-> IdleReq]
    /\ chimeMeetings = <<>>
    /\ chimeAttendees = <<>>
    /\ pipelines = <<>>
    /\ recLog = [t \in Rooms |-> <<>>]
    /\ failures = 0
    /\ client = FormClient
    /\ attendeeRoster = EmptyRoster
    /\ handlers = <<>>
    /\ notifications = <<>>
    /\ timers = <<>>
    /\ clock = [now |-> 0, ticks |-> 0]
    /\ left = {}
    /\ delivered = <<>>

\* ------------------------------------------------------------ the provider
\* A provider call may reject (the handler's catch block runs).
ProviderFails ==
    /\ failures < MaxFailures
    /\ failures' = failures + 1

\* The MeetingData object literal { meeting: ..., attendees: {} }.
NewMeetingData(id) ==
    [meeting |-> id, attendees |-> EmptyRoster, pipelineId |-> Undefined, recordMode |-> ""]

\* if (!meetings[title])
MeetingMissing(t) == meetings[t] = NoMeeting

\* The provider still runs capture pipeline p (created and not deleted).
LivePipeline(p) == p \in DOMAIN pipelines /\ pipelines[p].live

\* ------------------------------------------------------------ /api/create
\* Synchronous part of the handler: the existence check, then either the
\* answer from the table or the CreateMeetingCommand being sent.
CreateBegin(i, t) ==
    /\ CanArrive(i)
    /\ IF MeetingMissing(t)
       THEN req' = [req EXCEPT ![i] = [IdleReq EXCEPT !.op = "create", !.title = t,
                                         !.pc = "createMeeting", !.sent = {"CreateMeeting"}]]
       ELSE req' = [req EXCEPT ![i] = Respond([IdleReq EXCEPT !.op = "create", !.title = t], 200,
                                              [NoBody EXCEPT !.meeting = meetings[t].meeting])]
    /\ UNCHANGED <<meetings, chimeMeetings, chimeAttendees, pipelines, recLog, failures>>

\* The provider answers CreateMeeting: the handler stores a fresh MeetingData
\* under the title and answers with meetings[title].meeting.
CreateMeetingOk(i) ==
    /\ req[i].op = "create" /\ req[i].pc = "createMeeting"
    /\ LET t == req[i].title
           id == Len(chimeMeetings) + 1
       IN /\ chimeMeetings' = Append(chimeMeetings, t)
          /\ meetings' = [meetings EXCEPT ![t] = NewMeetingData(id)]
          /\ req' = [req EXCEPT ![i] = Respond(@, 200, [NoBody EXCEPT !.meeting = id])]
    /\ UNCHANGED <<chimeAttendees, pipelines, recLog, failures>>

\* catch (err) { res.status(500).json({ error: err.message }) }
CreateMeetingFail(i) ==
    /\ req[i].op = "create" /\ req[i].pc = "createMeeting"
    /\ ProviderFails
    /\ req' = [req EXCEPT ![i] = Respond(@, 500, NoBody)]
    /\ UNCHANGED <<meetings, chimeMeetings, chimeAttendees, pipelines, recLog>>

\* -------------------------------------------------------- /api/roster/:title
\* meetingData.attendees || {}
RosterOf(md) == md.attendees

\* A roster handler that treats a meeting nobody has joined as unknown.
RosterGetEmptyAsMissing(i, t) ==
    /\ CanArrive(i)
    /\ LET r == [IdleReq EXCEPT !.op = "roster", !.title = t]
       IN IF MeetingMissing(t) \/ RosterOf(meetings[t]) = EmptyRoster
          THEN req' = [req EXCEPT ![i] = Respond(r, 404, NoBody)]
          ELSE req' = [req EXCEPT ![i] = Respond(r, 200, [NoBody EXCEPT !.roster = RosterOf(meetings[t])])]
    /\ UNCHANGED <<meetings, chimeMeetings, chimeAttendees, pipelines, recLog, failures>>
\* The whole handler is synchronous: 404 for an unknown title, else the roster.
RosterGet(i, t) ==
    /\ CanArrive(i)
    /\ LET r == [IdleReq EXCEPT !.op = "roster", !.title = t]
       IN IF MeetingMissing(t)
          THEN req' = [req EXCEPT ![i] = Respond(r, 404, NoBody)]
          ELSE req' = [req EXCEPT ![i] = Respond(r, 200, [NoBody EXCEPT !.roster = RosterOf(meetings[t])])]
    /\ UNCHANGED <<meetings, chimeMeetings, chimeAttendees, pipelines, recLog, failures>>

\* -------------------------------------------------------------- /api/join
\* Synchronous part: the existence check; a missing meeting sends
\* CreateMeetingCommand, an existing one is read into `meeting` and the
\* CreateAttendeeCommand is sent at once.
JoinBegin(i, t, n) ==
    /\ CanArrive(i)
    /\ LET r == [IdleReq EXCEPT !.op = "join", !.title = t, !.name = n]
       IN IF MeetingMissing(t)
          THEN req' = [req EXCEPT ![i] = [r EXCEPT !.pc = "createMeeting", !.sent = {"CreateMeeting"}]]
          ELSE req' = [req EXCEPT ![i] = [r EXCEPT !.pc = "createAttendee", !.sent = {"CreateAttendee"},
                                                   !.meeting = meetings[t].meeting]]
    /\ UNCHANGED <<meetings, chimeMeetings, chimeAttendees, pipelines, recLog, failures>>

\* A join that stores the created meeting in the table only and does not
\* keep it in its local `meeting`.
JoinMeetingOkTableOnly(i) ==
    /\ req[i].op = "join" /\ req[i].pc = "createMeeting"
    /\ LET t == req[i].title
           id == Len(chimeMeetings) + 1
       IN /\ chimeMeetings' = Append(chimeMeetings, t)
          /\ meetings' = [meetings EXCEPT ![t] = NewMeetingData(id)]
          /\ req' = [req EXCEPT ![i] = [@ EXCEPT !.pc = "createAttendee",
                                                 !.sent = @ \cup {"CreateAttendee"}]]
    /\ UNCHANGED <<chimeAttendees, pipelines, recLog, failures>>
\* The provider answers CreateMeeting: the handler stores a fresh MeetingData
\* under the title and goes on to send CreateAttendeeCommand for that meeting.
JoinMeetingOk(i) ==
    /\ req[i].op = "join" /\ req[i].pc = "createMeeting"
    /\ LET t == req[i].title
           id == Len(chimeMeetings) + 1
       IN /\ chimeMeetings' = Append(chimeMeetings, t)
          /\ meetings' = [meetings EXCEPT ![t] = NewMeetingData(id)]
          /\ req' = [req EXCEPT ![i] = [@ EXCEPT !.pc = "createAttendee", !.meeting = id,
                                                 !.sent = @ \cup {"CreateAttendee"}]]
    /\ UNCHANGED <<chimeAttendees, pipelines, recLog, failures>>

\* A join that finds the display name in the roster keeps the existing entry.
AddAttendeeReusingName(roster, attendeeId, n) ==
    IF \E a \in DOMAIN roster : roster[a] = n THEN roster ELSE (attendeeId :> n) @@ roster

\* meetings[title].attendees[attendeeId] = name
AddAttendee(roster, attendeeId, n) == (attendeeId :> n) @@ roster

\* A join that starts the roster anew each time.
EnsureAttendeesReset(md) == EmptyRoster

\* if (!meetings[title].attendees) meetings[title].attendees = {} : every record
\* is made with attendees: {}, which is truthy, so the roster is kept.
EnsureAttendees(md) == md.attendees

\* A join that enters the name in the roster of every meeting of the table.
JoinAttendeeOkAllTitles(i) ==
    /\ req[i].op = "join" /\ req[i].pc = "createAttendee"
    /\ LET t == req[i].title
           attendeeId == Len(chimeAttendees) + 1
           roster == AddAttendee(meetings[t].attendees, attendeeId, req[i].name)
       IN /\ chimeAttendees' = Append(chimeAttendees, req[i].meeting)
          /\ meetings' = [u \in Rooms |->
                            IF meetings[u] = NoMeeting THEN NoMeeting
                            ELSE [meetings[u] EXCEPT !.attendees =
                                     AddAttendee(@, attendeeId, req[i].name)]]
          /\ req' = [req EXCEPT ![i] = Respond(@, 200, [NoBody EXCEPT !.meeting = req[i].meeting,
                                                                     !.attendee = attendeeId,
                                                                     !.roster = roster])]
    /\ UNCHANGED <<chimeMeetings, pipelines, recLog, failures>>

\* The provider answers CreateAttendee: the name is stored under the new
\* AttendeeId and the answer carries JoinInfo and the roster.
JoinAttendeeOk(i) ==
    /\ req[i].op = "join" /\ req[i].pc = "createAttendee"
    /\ LET t == req[i].title
           attendeeId == Len(chimeAttendees) + 1
           roster == AddAttendee(EnsureAttendees(meetings[t]), attendeeId, req[i].name)
       IN /\ chimeAttendees' = Append(chimeAttendees, req[i].meeting)
          /\ meetings' = [meetings EXCEPT ![t].attendees = roster]
          /\ req' = [req EXCEPT ![i] = Respond(@, 200, [NoBody EXCEPT !.meeting = req[i].meeting,
                                                                     !.attendee = attendeeId,
                                                                     !.roster = roster])]
    /\ UNCHANGED <<chimeMeetings, pipelines, recLog, failures>>

\* A catch block that enters the name in the roster although the provider
\* has created no attendee.
JoinFailKeepingEntry(i) ==
    /\ req[i].op = "join" /\ req[i].pc \in {"createMeeting", "createAttendee"}
    /\ ProviderFails
    /\ req' = [req EXCEPT ![i] = Respond(@, 500, NoBody)]
    /\ IF req[i].pc = "createAttendee"
       THEN meetings' = [meetings EXCEPT ![req[i].title].attendees =
                            AddAttendee(@, Len(chimeAttendees) + 1, req[i].name)]
       ELSE UNCHANGED meetings
    /\ UNCHANGED <<chimeMeetings, chimeAttendees, pipelines, recLog>>
\* catch (err) { console.error(...); res.status(500).json({ error: err.message }) }
JoinFail(i) ==
    /\ req[i].op = "join" /\ req[i].pc \in {"createMeeting", "createAttendee"}
    /\ ProviderFails
    /\ req' = [req EXCEPT ![i] = Respond(@, 500, NoBody)]
    /\ UNCHANGED <<meetings, chimeMeetings, chimeAttendees, pipelines, recLog>>

\* ------------------------------------------------------- /api/record/start
\* if (meetingData.pipelineId) return 400
AlreadyRecording(md) == Truthy(md.pipelineId)

\* A configuration that captures separate streams for mode 'raw' only.
ArtifactsConfigRawOnly(mode) ==
    IF mode # "raw"
    THEN [Audio |-> "AudioOnly", Video |-> "Disabled", Content |-> "Disabled",
          CompositedVideo |-> "GridView/HD/PresenterOnly"]
    ELSE [Audio |-> "AudioOnly", Video |-> "VideoOnly", Content |-> "ContentOnly",
          CompositedVideo |-> "none"]
\* The artifactsConfig object built from mode.
ArtifactsConfig(mode) ==
    IF mode = "grid"
    THEN [Audio |-> "AudioOnly", Video |-> "Disabled", Content |-> "Disabled",
          CompositedVideo |-> "GridView/HD/PresenterOnly"]
    ELSE [Audio |-> "AudioOnly", Video |-> "VideoOnly", Content |-> "ContentOnly",
          CompositedVideo |-> "none"]

\* A start whose two checks are merged: an unknown title is answered 400.
StartBeginMergedChecks(i, t, m) ==
    /\ CanArrive(i)
    /\ LET r == [IdleReq EXCEPT !.op = "start", !.title = t, !.mode = m]
       IN IF MeetingMissing(t) \/ AlreadyRecording(meetings[t])
          THEN req' = [req EXCEPT ![i] = Respond(r, 400, NoBody)]
          ELSE req' = [req EXCEPT ![i] = [r EXCEPT !.pc = "createPipeline",
                                                   !.sent = {"CreateMediaCapturePipeline"},
                                                   !.meeting = meetings[t].meeting]]
    /\ UNCHANGED <<meetings, chimeMeetings, chimeAttendees, pipelines, recLog, failures>>
\* Synchronous part: 404 for an unknown title, 400 when a pipelineId is
\* stored, else the CreateMediaCapturePipelineCommand is built and sent.
StartBegin(i, t, m) ==
    /\ CanArrive(i)
    /\ LET r == [IdleReq EXCEPT !.op = "start", !.title = t, !.mode = m]
       IN IF MeetingMissing(t)
          THEN req' = [req EXCEPT ![i] = Respond(r, 404, NoBody)]
          ELSE IF AlreadyRecording(meetings[t])
          THEN req' = [req EXCEPT ![i] = Respond(r, 400, NoBody)]
          ELSE req' = [req EXCEPT ![i] = [r EXCEPT !.pc = "createPipeline",
                                                   !.sent = {"CreateMediaCapturePipeline"},
                                                   !.meeting = meetings[t].meeting]]
    /\ UNCHANGED <<meetings, chimeMeetings, chimeAttendees, pipelines, recLog, failures>>

\* The provider answers CreateMediaCapturePipeline: pipelineId and recordMode
\* are stored in meetings[title] and the answer carries the pipelineId.
StartPipelineOk(i) ==
    /\ req[i].op = "start" /\ req[i].pc = "createPipeline"
    /\ LET t == req[i].title
           id == Len(pipelines) + 1
       IN /\ pipelines' = Append(pipelines, [meeting |-> req[i].meeting, live |-> TRUE,
                                             artifacts |-> ArtifactsConfig(req[i].mode)])
          /\ meetings' = [meetings EXCEPT ![t].pipelineId = id, ![t].recordMode = req[i].mode]
          /\ req' = [req EXCEPT ![i] = Respond(@, 200, [NoBody EXCEPT !.pipelineId = id])]
          /\ recLog' = [recLog EXCEPT ![t] = Append(@, "start")]
    /\ UNCHANGED <<chimeMeetings, chimeAttendees, failures>>

\* A catch block that records the requested mode although no pipeline exists.
StartFailRecordingMode(i) ==
    /\ req[i].op = "start" /\ req[i].pc = "createPipeline"
    /\ ProviderFails
    /\ req' = [req EXCEPT ![i] = Respond(@, 500, NoBody)]
    /\ meetings' = [meetings EXCEPT ![req[i].title].recordMode = req[i].mode]
    /\ UNCHANGED <<chimeMeetings, chimeAttendees, pipelines, recLog>>
\* catch (err) { console.error(...); res.status(500).json({ error: err.message }) }
StartFail(i) ==
    /\ req[i].op = "start" /\ req[i].pc = "createPipeline"
    /\ ProviderFails
    /\ req' = [req EXCEPT ![i] = Respond(@, 500, NoBody)]
    /\ UNCHANGED <<meetings, chimeMeetings, chimeAttendees, pipelines, recLog>>

\* -------------------------------------------------------- /api/record/stop
\* A stop that only checks that the meeting exists.
NotRecordingMeetingOnly(t) == MeetingMissing(t)

\* if (!meetingData || !meetingData.pipelineId) return 400
NotRecording(t) == MeetingMissing(t) \/ ~Truthy(meetings[t].pipelineId)

\* Synchronous part: 400 when nothing is recorded for the title, else the
\* DeleteMediaCapturePipelineCommand for the stored pipelineId is sent.
StopBegin(i, t) ==
    /\ CanArrive(i)
    /\ LET r == [IdleReq EXCEPT !.op = "stop", !.title = t]
       IN IF NotRecording(t)
          THEN req' = [req EXCEPT ![i] = Respond(r, 400, NoBody)]
          ELSE req' = [req EXCEPT ![i] = [r EXCEPT !.pc = "deletePipeline",
                                                   !.sent = {"DeleteMediaCapturePipeline"},
                                                   !.pipe = meetings[t].pipelineId]]
    /\ UNCHANGED <<meetings, chimeMeetings, chimeAttendees, pipelines, recLog, failures>>

\* The provider answers DeleteMediaCapturePipeline (deleting a pipeline that
\* is already gone may be answered as a success too): the stored pipelineId
\* of the title is set to null.
StopDeleteOk(i) ==
    /\ req[i].op = "stop" /\ req[i].pc = "deletePipeline"
    /\ LET t == req[i].title
       IN /\ pipelines' = [p \in DOMAIN pipelines |->
                            IF p = req[i].pipe THEN [pipelines[p] EXCEPT !.live = FALSE]
                            ELSE pipelines[p]]
          /\ meetings' = [meetings EXCEPT ![t].pipelineId = Null]
          /\ req' = [req EXCEPT ![i] = Respond(@, 200, NoBody)]
          /\ recLog' = [recLog EXCEPT ![t] = Append(@, "stop")]
    /\ UNCHANGED <<chimeMeetings, chimeAttendees, failures>>

\* The provider rejects the deletion of a pipeline that is already gone.
StopDeleteGone(i) ==
    /\ req[i].op = "stop" /\ req[i].pc = "deletePipeline"
    /\ ~LivePipeline(req[i].pipe)
    /\ req' = [req EXCEPT ![i] = Respond(@, 500, NoBody)]
    /\ UNCHANGED <<meetings, chimeMeetings, chimeAttendees, pipelines, recLog, failures>>

\* A catch block that gives up the stored pipelineId when the deletion fails.
StopFailClearing(i) ==
    /\ req[i].op = "stop" /\ req[i].pc = "deletePipeline"
    /\ ProviderFails
    /\ req' = [req EXCEPT ![i] = Respond(@, 500, NoBody)]
    /\ meetings' = [meetings EXCEPT ![req[i].title].pipelineId = Null]
    /\ UNCHANGED <<chimeMeetings, chimeAttendees, pipelines, recLog>>
\* catch (err) { console.error(...); res.status(500).json({ error: err.message }) }
StopFail(i) ==
    /\ req[i].op = "stop" /\ req[i].pc = "deletePipeline"
    /\ ProviderFails
    /\ req' = [req EXCEPT ![i] = Respond(@, 500, NoBody)]
    /\ UNCHANGED <<meetings, chimeMeetings, chimeAttendees, pipelines, recLog>>

Next ==
    \/ (\E i \in Reqs, t \in Titles : CreateBegin(i, t)) /\ UNCHANGED clientVars
    \/ (\E i \in Reqs : CreateMeetingOk(i)) /\ UNCHANGED clientVars
    \/ (\E i \in Reqs : CreateMeetingFail(i)) /\ UNCHANGED clientVars
    \/ (\E i \in Reqs, t \in Titles : RosterGet(i, t)) /\ UNCHANGED clientVars
    \/ (\E i \in Reqs, t \in Titles, n \in Names : JoinBegin(i, t, n)) /\ UNCHANGED clientVars
    \/ (\E i \in Reqs : JoinMeetingOk(i)) /\ UNCHANGED clientVars
    \/ (\E i \in Reqs : JoinAttendeeOk(i)) /\ UNCHANGED clientVars
    \/ (\E i \in Reqs : JoinFail(i)) /\ UNCHANGED clientVars
    \/ (\E i \in Reqs, t \in Titles, m \in Modes : StartBegin(i, t, m)) /\ UNCHANGED clientVars
    \/ (\E i \in Reqs : StartPipelineOk(i)) /\ UNCHANGED clientVars
    \/ (\E i \in Reqs : StartFail(i)) /\ UNCHANGED clientVars
    \/ (\E i \in Reqs, t \in Titles : StopBegin(i, t)) /\ UNCHANGED clientVars
    \/ (\E i \in Reqs : StopDeleteOk(i)) /\ UNCHANGED clientVars
    \/ (\E i \in Reqs : StopDeleteGone(i)) /\ UNCHANGED clientVars
    \/ (\E i \in Reqs : StopFail(i)) /\ UNCHANGED clientVars

Spec == Init /\ [][Next]_vars

\* ------------------------------------------------------- several titles
\* The same handlers, with requests for two titles and create/join requests
\* whose body has no title.
TitleReqs == 1..MaxTitleReqs
GivenTitles == {"ROOM1", "ROOM2"}
BodyTitles == GivenTitles \cup {MissingTitleKey}

\* The runs start with an empty table, or after create("ROOM1") and
\* start("ROOM1", "raw") have been answered: ROOM1 exists and is recorded by
\* pipeline 1.
InitTitles ==
    /\ \E recording \in BOOLEAN :
          IF recording
          THEN /\ meetings = [t \in Rooms |->
                                IF t = "ROOM1"
                                THEN [NewMeetingData(1) EXCEPT !.pipelineId = 1, !.recordMode = "raw"]
                                ELSE NoMeeting]
               /\ chimeMeetings = <<"ROOM1">>
               /\ pipelines = <<[meeting |-> 1, live |-> TRUE, artifacts |-> ArtifactsConfig("raw")]>>
               /\ recLog = [t \in Rooms |-> IF t = "ROOM1" THEN <<"start">> ELSE <<>>]
          ELSE /\ meetings = [t \in Rooms |-> NoMeeting]
               /\ chimeMeetings = <<>>
               /\ pipelines = <<>>
               /\ recLog = [t \in Rooms |-> <<>>]
    /\ req = [i \in Reqs |-> IdleReq]
    /\ chimeAttendees = <<>>
    /\ failures = 0
    /\ client = FormClient
    /\ attendeeRoster = EmptyRoster
    /\ handlers = <<>>
    /\ notifications = <<>>
    /\ timers = <<>>
    /\ clock = [now |-> 0, ticks |-> 0]
    /\ left = {}
    /\ delivered = <<>>

\* A request is received: the handler runs up to its answer or first await.
TitlesHandle ==
    \/ (\E i \in TitleReqs, t \in BodyTitles : CreateBegin(i, t)) /\ UNCHANGED clientVars
    \/ (\E i \in TitleReqs, t \in GivenTitles : RosterGet(i, t)) /\ UNCHANGED clientVars
    \/ (\E i \in TitleReqs, t \in BodyTitles : JoinBegin(i, t, "Alice")) /\ UNCHANGED clientVars
    \/ (\E i \in TitleReqs, t \in GivenTitles : StartBegin(i, t, "raw")) /\ UNCHANGED clientVars
    \/ (\E i \in TitleReqs, t \in GivenTitles : StopBegin(i, t)) /\ UNCHANGED clientVars

\* The provider answers a command and the handler that awaits it resumes.
TitlesProvider ==
    \/ (\E i \in TitleReqs : CreateMeetingOk(i)) /\ UNCHANGED clientVars
    \/ (\E i \in TitleReqs : CreateMeetingFail(i)) /\ UNCHANGED clientVars
    \/ (\E i \in TitleReqs : JoinMeetingOk(i)) /\ UNCHANGED clientVars
    \/ (\E i \in TitleReqs : JoinAttendeeOk(i)) /\ UNCHANGED clientVars
    \/ (\E i \in TitleReqs : JoinFail(i)) /\ UNCHANGED clientVars
    \/ (\E i \in TitleReqs : StartPipelineOk(i)) /\ UNCHANGED clientVars
    \/ (\E i \in TitleReqs : StartFail(i)) /\ UNCHANGED clientVars
    \/ (\E i \in TitleReqs : StopDeleteOk(i)) /\ UNCHANGED clientVars
    \/ (\E i \in TitleReqs : StopDeleteGone(i)) /\ UNCHANGED clientVars
    \/ (\E i \in TitleReqs : StopFail(i)) /\ UNCHANGED clientVars

TitlesNext == TitlesHandle \/ TitlesProvider

SpecTitles == InitTitles /\ [][TitlesNext]_vars

\* The event loop runs the handler of every request it has received; nothing
\* in the program makes the provider answer (the clients are built without a
\* request timeout and the handlers await without one).
SpecTitlesFair == SpecTitles /\ WF_vars(TitlesHandle)

\* ===================================================== the browser client
\* setTimeout(..., 3000) in showNotification, in milliseconds.
ExpiryDelay == 3000

\* x[attendeeId] || 'Someone' : a missing entry and an empty name are falsy.
NameOrSomeone(roster, a) ==
    IF a \in DOMAIN roster /\ roster[a] # "" THEN roster[a] ELSE "Someone"

\* showNotification(message, type): the entry is appended under
\* id = Date.now() and a timer is set that removes the entries with that id.
PushNotification(q, message, type) == Append(q, [id |-> clock.now, message |-> message, type |-> type])
SetExpiryTimer(ts) == Append(ts, [id |-> clock.now, due |-> clock.now + ExpiryDelay])
ShowNotification(message, type) ==
    /\ notifications' = PushNotification(notifications, message, type)
    /\ timers' = SetExpiryTimer(timers)

\* setNotifications(prev => prev.filter(n => n.id !== id))
RemoveNotification(q, id) == SelectSeq(q, LAMBDA n : n.id # id)

\* A removal that resets the roster when the attendeeId has no entry.
RemoveAttendeeOrReset(roster, a) ==
    IF a \in DOMAIN roster THEN [b \in DOMAIN roster \ {a} |-> roster[b]] ELSE EmptyRoster
\* const updated = { ...prev }; delete updated[attendeeId]; return updated
RemoveAttendee(roster, a) == [b \in DOMAIN roster \ {a} |-> roster[b]]

\* s without its element at position k.
DropAt(s, k) == [j \in 1..(Len(s) - 1) |-> IF j < k THEN s[j] ELSE s[j + 1]]

\* The attendees the provider created in the meeting the client's session is in.
SessionAttendees == {a \in DOMAIN chimeAttendees : chimeAttendees[a] = client.meeting}

\* joinMeeting, up to `await fetch('/api/join')`: the request reaches the
\* server.  initializeChime and the presence handler it defines are closures
\* of this render: they see the attendeeRoster state of this moment.
ClientSubmit(i) ==
    /\ client.phase = "form"
    /\ JoinBegin(i, client.roomId, client.name)
    /\ client' = [client EXCEPT !.phase = "joining", !.joinSlot = i,
                                !.closureRoster = attendeeRoster]
    /\ UNCHANGED <<attendeeRoster, handlers, notifications, timers, clock, left, delivered>>

\* joinMeeting after the response: an error answer returns to the form; a
\* success stores data.Roster and schedules initializeChime(data.JoinInfo).
ClientJoinResponse ==
    /\ client.phase = "joining"
    /\ req[client.joinSlot].pc = "done"
    /\ LET data == req[client.joinSlot]
       IN IF data.status # 200
          THEN /\ client' = [client EXCEPT !.phase = "form"]
               /\ UNCHANGED attendeeRoster
          ELSE /\ client' = [client EXCEPT !.phase = "inCall", !.me = data.body.attendee,
                                           !.meeting = data.body.meeting]
               /\ attendeeRoster' = data.body.roster
    /\ UNCHANGED <<handlers, notifications, timers, clock, left, delivered>>
    /\ UNCHANGED serverVars

\* initializeChime: the session is created and the presence handler subscribed.
InitializeChime ==
    /\ client.phase = "inCall"
    /\ client' = [client EXCEPT !.phase = "subscribed"]
    /\ UNCHANGED <<attendeeRoster, handlers, notifications, timers, clock, left, delivered>>
    /\ UNCHANGED serverVars

\* leaveCall: the session is stopped and the join form shown again, and
\* isRecording is set to false; the attendeeRoster and myAttendeeId states
\* are not reset.
LeaveCall ==
    /\ client.phase = "subscribed"
    /\ client' = [client EXCEPT !.phase = "form", !.isRecording = FALSE]
    /\ UNCHANGED <<attendeeRoster, handlers, notifications, timers, clock, left, delivered>>
    /\ UNCHANGED serverVars

\* Another participant leaves the meeting (closes the browser, ends the call)
\* while the client's session observes the meeting.
AttendeeLeaves(a) ==
    /\ client.phase = "subscribed"
    /\ a \in SessionAttendees /\ a \notin left
    /\ a # client.me
    /\ left' = left \cup {a}
    /\ UNCHANGED <<client, attendeeRoster, handlers, notifications, timers, clock, delivered>>
    /\ UNCHANGED serverVars

\* The provider may deliver (again) the presence of any attendee of the session.
CanDeliver(a) ==
    /\ client.phase = "subscribed"
    /\ a \in SessionAttendees
    /\ Len(delivered) < MaxEvents

\* A handler that takes its own attendeeId from a state that is not yet set.
PresentEventStaleMe(a) ==
    /\ CanDeliver(a) /\ a \notin left
    /\ delivered' = Append(delivered, [attendee |-> a, present |-> TRUE])
    /\ handlers' = Append(handlers, [attendee |-> a, me |-> 0, slot |-> 0])
    /\ UNCHANGED <<client, attendeeRoster, notifications, timers, clock, left>>
    /\ UNCHANGED serverVars
\* attendeeIdPresenceHandler(attendeeId, present = true), up to
\* `await fetch('/api/roster/...')`.
PresentEvent(a) ==
    /\ CanDeliver(a) /\ a \notin left
    /\ delivered' = Append(delivered, [attendee |-> a, present |-> TRUE])
    /\ handlers' = Append(handlers, [attendee |-> a, me |-> client.me, slot |-> 0])
    /\ UNCHANGED <<client, attendeeRoster, notifications, timers, clock, left>>
    /\ UNCHANGED serverVars

\* The roster request of suspended handler h reaches the server.
FetchArrives(h, i) ==
    /\ h \in DOMAIN handlers /\ handlers[h].slot = 0
    /\ RosterGet(i, client.roomId)
    /\ handlers' = [handlers EXCEPT ![h].slot = i]
    /\ UNCHANGED <<client, attendeeRoster, notifications, timers, clock, left, delivered>>

\* A handler that shows the joined notification for the client itself too.
NotifiesJoinAlways(attendeeId, myAttendeeId) == TRUE

\* if (attendeeId !== myAttendeeId) showNotification(`${attendeeName} joined`, 'join')
\* with myAttendeeId = joinInfo.Attendee.AttendeeId of the handler's session.
NotifiesJoin(attendeeId, myAttendeeId) == attendeeId # myAttendeeId

\* A handler that empties the roster when the answer carries none.
FetchResponseClearing(h) ==
    /\ h \in DOMAIN handlers /\ handlers[h].slot # 0
    /\ LET data == req[handlers[h].slot]
           a == handlers[h].attendee
       IN IF data.status = 200
          THEN /\ IF NotifiesJoin(a, handlers[h].me)
                  THEN ShowNotification(<<NameOrSomeone(data.body.roster, a), "joined">>, "join")
                  ELSE UNCHANGED <<notifications, timers>>
               /\ attendeeRoster' = data.body.roster
          ELSE /\ attendeeRoster' = EmptyRoster
               /\ UNCHANGED <<notifications, timers>>
    /\ handlers' = DropAt(handlers, h)
    /\ UNCHANGED <<client, clock, left, delivered>>
    /\ UNCHANGED serverVars
\* The handler resumes with the answer: when it carries a roster, the joined
\* notification is shown unless the event is about the client itself, and the
\* roster replaces attendeeRoster.
FetchResponse(h) ==
    /\ h \in DOMAIN handlers /\ handlers[h].slot # 0
    /\ LET data == req[handlers[h].slot]
           a == handlers[h].attendee
       IN IF data.status = 200
          THEN /\ IF NotifiesJoin(a, handlers[h].me)
                  THEN ShowNotification(<<NameOrSomeone(data.body.roster, a), "joined">>, "join")
                  ELSE UNCHANGED <<notifications, timers>>
               /\ attendeeRoster' = data.body.roster
          ELSE UNCHANGED <<attendeeRoster, notifications, timers>>
    /\ handlers' = DropAt(handlers, h)
    /\ UNCHANGED <<client, clock, left, delivered>>
    /\ UNCHANGED serverVars

\* A catch block that tells the user about the failure.
FetchFailsNotifying(h) ==
    /\ h \in DOMAIN handlers /\ handlers[h].slot = 0
    /\ ProviderFails
    /\ handlers' = DropAt(handlers, h)
    /\ ShowNotification(<<"Someone", "joined">>, "join")
    /\ UNCHANGED <<client, attendeeRoster, clock, left, delivered>>
    /\ UNCHANGED <<meetings, req, chimeMeetings, chimeAttendees, pipelines, recLog>>
\* catch (error) { console.error('Failed to update roster:', error) }
FetchFails(h) ==
    /\ h \in DOMAIN handlers /\ handlers[h].slot = 0
    /\ ProviderFails
    /\ handlers' = DropAt(handlers, h)
    /\ UNCHANGED <<client, attendeeRoster, notifications, timers, clock, left, delivered>>
    /\ UNCHANGED <<meetings, req, chimeMeetings, chimeAttendees, pipelines, recLog>>

\* const leavingName = attendeeRoster[attendeeId] || 'Someone' : attendeeRoster
\* is the variable of the render that submitted the join.
LeavingName(a) == NameOrSomeone(client.closureRoster, a)

\* attendeeIdPresenceHandler(attendeeId, present = false): synchronous.
AbsentEvent(a) ==
    /\ CanDeliver(a) /\ a \in left
    /\ delivered' = Append(delivered, [attendee |-> a, present |-> FALSE])
    /\ ShowNotification(<<LeavingName(a), "left">>, "leave")
    /\ attendeeRoster' = RemoveAttendee(attendeeRoster, a)
    /\ UNCHANGED <<client, handlers, clock, left>>
    /\ UNCHANGED serverVars

\* The setTimeout callback of the oldest notification timer runs.
Expire ==
    /\ timers # <<>> /\ Head(timers).due <= clock.now
    /\ notifications' = RemoveNotification(notifications, Head(timers).id)
    /\ timers' = Tail(timers)
    /\ UNCHANGED <<client, attendeeRoster, handlers, clock, left, delivered>>
    /\ UNCHANGED serverVars

\* Time passes at the client: one millisecond, or up to the next timer.
Tick(d) ==
    /\ clock.ticks < MaxTicks
    /\ d >= 1
    /\ \A k \in DOMAIN timers : clock.now + d <= timers[k].due
    /\ clock' = [now |-> clock.now + d, ticks |-> clock.ticks + 1]
    /\ UNCHANGED <<client, attendeeRoster, handlers, notifications, timers, left, delivered>>
    /\ UNCHANGED serverVars

TickSteps == {1} \cup {timers[k].due - clock.now : k \in DOMAIN timers}

ClientReqs == 1..MaxClientReqs
\* The display names of the other participants of the client specification.
OtherNames == {"Bob"}

ClientNext ==
    \/ \E i \in ClientReqs : ClientSubmit(i)
    \/ ClientJoinResponse
    \/ InitializeChime
    \/ LeaveCall
    \/ (\E i \in ClientReqs, n \in OtherNames : JoinBegin(i, client.roomId, n)) /\ UNCHANGED clientVars
    \/ (\E i \in ClientReqs : JoinMeetingOk(i)) /\ UNCHANGED clientVars
    \/ (\E i \in ClientReqs : JoinAttendeeOk(i)) /\ UNCHANGED clientVars
    \/ (\E i \in ClientReqs : JoinFail(i)) /\ UNCHANGED clientVars
    \/ \E a \in DOMAIN chimeAttendees : AttendeeLeaves(a)
    \/ \E a \in DOMAIN chimeAttendees : PresentEvent(a)
    \/ \E h \in DOMAIN handlers, i \in ClientReqs : FetchArrives(h, i)
    \/ \E h \in DOMAIN handlers : FetchResponse(h)
    \/ \E h \in DOMAIN handlers : FetchFails(h)
    \/ \E a \in DOMAIN chimeAttendees : AbsentEvent(a)

SpecClient == Init /\ [][ClientNext]_vars

\* ------------------------------------------- the client and a server restart
\* The server process is restarted while no request is being served: the
\* in-memory table starts again as `const meetings = {}`; the provider keeps
\* its meetings and the clients keep the answers they have.
ServerRestart ==
    /\ \A i \in Reqs : req[i].pc \in {"idle", "done"}
    /\ meetings # [t \in Rooms |-> NoMeeting]
    /\ meetings' = [t \in Rooms |-> NoMeeting]
    /\ recLog' = [t \in Rooms |-> <<>>]
    /\ UNCHANGED <<req, chimeMeetings, chimeAttendees, pipelines, failures>>
    /\ UNCHANGED clientVars

RestartNext == ClientNext \/ ServerRestart

SpecClientRestart == Init /\ [][RestartNext]_vars

\* --------------------------------------------- the client's recording control
\* The call controls are rendered while inCall is true.
InCall == client.phase \in {"inCall", "subscribed"}

\* toggleRecording(mode), up to `await fetch(endpoint)`: the endpoint is stop
\* when the isRecording of this render is true and start otherwise; mode is
\* 'raw' or 'grid' for the two start buttons.
ToggleSubmit(i, mode) ==
    /\ InCall /\ client.recSlot = 0
    /\ IF client.isRecording
       THEN StopBegin(i, client.roomId)
       ELSE StartBegin(i, client.roomId, mode)
    /\ client' = [client EXCEPT !.recSlot = i, !.recWas = client.isRecording]
    /\ UNCHANGED <<attendeeRoster, handlers, notifications, timers, clock, left, delivered>>

\* toggleRecording after the response: an ok answer sets isRecording to the
\* negation of the value the click saw, any other answer only alerts.
ToggleResponse ==
    /\ client.recSlot # 0
    /\ req[client.recSlot].pc = "done"
    /\ client' = [client EXCEPT !.recSlot = 0,
                                !.isRecording = IF req[client.recSlot].status = 200
                                                THEN ~client.recWas ELSE @]
    /\ UNCHANGED <<attendeeRoster, handlers, notifications, timers, clock, left, delivered>>
    /\ UNCHANGED serverVars

\* catch (error) { alert('Recording action failed') }: the request does not
\* reach the server.
ToggleFails ==
    /\ InCall /\ client.recSlot = 0
    /\ ProviderFails
    /\ UNCHANGED <<meetings, req, chimeMeetings, chimeAttendees, pipelines, recLog>>
    /\ UNCHANGED clientVars

\* The client, the server's join and recording handlers, and the recording
\* requests of the other clients in the client's room.
RecordingNext ==
    \/ \E i \in Reqs : ClientSubmit(i)
    \/ ClientJoinResponse
    \/ InitializeChime
    \/ LeaveCall
    \/ (\E i \in Reqs : JoinMeetingOk(i)) /\ UNCHANGED clientVars
    \/ (\E i \in Reqs : JoinAttendeeOk(i)) /\ UNCHANGED clientVars
    \/ (\E i \in Reqs : JoinFail(i)) /\ UNCHANGED clientVars
    \/ \E i \in Reqs, m \in Modes : ToggleSubmit(i, m)
    \/ ToggleResponse
    \/ ToggleFails
    \/ (\E i \in Reqs, m \in Modes : StartBegin(i, client.roomId, m)) /\ UNCHANGED clientVars
    \/ (\E i \in Reqs : StopBegin(i, client.roomId)) /\ UNCHANGED clientVars
    \/ (\E i \in Reqs : StartPipelineOk(i)) /\ UNCHANGED clientVars
    \/ (\E i \in Reqs : StartFail(i)) /\ UNCHANGED clientVars
    \/ (\E i \in Reqs : StopDeleteOk(i)) /\ UNCHANGED clientVars
    \/ (\E i \in Reqs : StopDeleteGone(i)) /\ UNCHANGED clientVars
    \/ (\E i \in Reqs : StopFail(i)) /\ UNCHANGED clientVars

SpecRecording == Init /\ [][RecordingNext]_vars

\* ------------------------------------------------ start with any mode value
\* A body without a mode: `mode` is undefined, and so is the recordMode stored.
MissingMode == ""
\* The mode values a start request may carry: the two the client sends, any
\* other string, and none.
SubmittedModes == Modes \cup {"speaker", MissingMode}

\* A meeting is created, and recordings of it are started with every mode
\* value and stopped.
ModesNext ==
    \/ (\E i \in Reqs, t \in Titles : CreateBegin(i, t)) /\ UNCHANGED clientVars
    \/ (\E i \in Reqs : CreateMeetingOk(i)) /\ UNCHANGED clientVars
    \/ (\E i \in Reqs, t \in Titles, m \in SubmittedModes : StartBegin(i, t, m)) /\ UNCHANGED clientVars
    \/ (\E i \in Reqs : StartPipelineOk(i)) /\ UNCHANGED clientVars
    \/ (\E i \in Reqs : StartFail(i)) /\ UNCHANGED clientVars
    \/ (\E i \in Reqs, t \in Titles : StopBegin(i, t)) /\ UNCHANGED clientVars
    \/ (\E i \in Reqs : StopDeleteOk(i)) /\ UNCHANGED clientVars
    \/ (\E i \in Reqs : StopDeleteGone(i)) /\ UNCHANGED clientVars
    \/ (\E i \in Reqs : StopFail(i)) /\ UNCHANGED clientVars

SpecModes == Init /\ [][ModesNext]_vars

\* ------------------------------------------------- the notification queue
\* The messages the presence handler passes to showNotification.
Toasts == {[message |-> <<"Bob", "joined">>, type |-> "join"],
           [message |-> <<"Bob", "left">>, type |-> "leave"]}

\* A presence handler calls showNotification(message, type).
Notify(message, type) ==
    /\ Len(timers) < MaxPending
    /\ ShowNotification(message, type)
    /\ UNCHANGED <<client, attendeeRoster, handlers, clock, left, delivered>>
    /\ UNCHANGED serverVars

NotifyNext ==
    \/ \E n \in Toasts : Notify(n.message, n.type)
    \/ \E d \in TickSteps : Tick(d)
    \/ Expire


SpecNotify == Init /\ [][NotifyNext]_vars

\* ================================================================ properties
Succeeded(i) == req[i].pc = "done" /\ req[i].status = 200
\* Request i arrives in this step as operation o.
Arrives(i, o) == req[i].pc = "idle" /\ req'[i].pc # "idle" /\ req'[i].op = o
Last(s) == s[Len(s)]
ProviderMeetingsOf(t) == {m \in DOMAIN chimeMeetings : chimeMeetings[m] = t}
CreateMeetingInFlight(t) == {i \in Reqs : req[i].pc = "createMeeting" /\ req[i].title = t}
LivePipelinesOf(t) ==
    {p \in DOMAIN pipelines : pipelines[p].live /\ chimeMeetings[pipelines[p].meeting] = t}
SuccessfulJoins(t) == {i \in Reqs : Succeeded(i) /\ req[i].op = "join" /\ req[i].title = t}

\* C1: for every title, concurrent first callers of create/join cause at most
\* one createMeeting call: never two provider-side meetings for one title, nor
\* a second createMeeting call while one is pending or has produced a meeting.
C1_CreateMeetingAtMostOnce ==
    \A t \in Rooms :
        Cardinality(ProviderMeetingsOf(t)) + Cardinality(CreateMeetingInFlight(t)) <= 1

\* C2: all successful create and join responses for one title carry the same
\* meeting id.
C2_SameMeetingIdInResponses ==
    \A i, j \in Reqs :
        (/\ Succeeded(i) /\ Succeeded(j)
         /\ req[i].op \in {"create", "join"} /\ req[j].op \in {"create", "join"}
         /\ req[i].title = req[j].title)
        => req[i].body.meeting = req[j].body.meeting

\* C3: a create issued after a create for the same title has succeeded answers
\* with the same meeting id and sends no CreateMeeting to the provider.
C3_SecondCreateSameMeeting ==
    [][\A i, j \in Reqs :
          (/\ Arrives(i, "create")
           /\ Succeeded(j) /\ req[j].op = "create" /\ req[j].title = req'[i].title)
          => (/\ req'[i].pc = "done" /\ req'[i].status = 200
              /\ req'[i].body.meeting = req[j].body.meeting
              /\ req'[i].sent = {}
              /\ chimeMeetings' = chimeMeetings)]_vars

\* C4: for every title at most one capture pipeline created and not yet deleted
\* exists at the provider.
C4_AtMostOneLivePipeline ==
    \A t \in Rooms : Cardinality(LivePipelinesOf(t)) <= 1

\* C5: after N successful joins for a title its roster has exactly N entries,
\* one per join, keyed by that join's attendeeId and holding that join's name.
C5_RosterHasOneEntryPerJoin ==
    \A t \in Rooms :
        SuccessfulJoins(t) # {} =>
            /\ ~MeetingMissing(t)
            /\ Cardinality(DOMAIN meetings[t].attendees) = Cardinality(SuccessfulJoins(t))
            /\ \A i \in SuccessfulJoins(t) :
                  /\ req[i].body.attendee \in DOMAIN meetings[t].attendees
                  /\ meetings[t].attendees[req[i].body.attendee] = req[i].name

\* C6: every join that succeeds made one CreateAttendee call, the provider
\* created exactly one attendee for it (in the meeting of its JoinInfo), the
\* roster holds the submitted name under that attendeeId, and no two successful
\* joins share an attendeeId, whatever their names.
C6_JoinMintsNewAttendee ==
    /\ \A i \in Reqs :
          (Succeeded(i) /\ req[i].op = "join") =>
              /\ "CreateAttendee" \in req[i].sent
              /\ req[i].body.attendee \in DOMAIN chimeAttendees
              /\ chimeAttendees[req[i].body.attendee] = req[i].body.meeting
              /\ req[i].body.attendee \in DOMAIN req[i].body.roster
              /\ req[i].body.roster[req[i].body.attendee] = req[i].name
    /\ \A i, j \in Reqs :
          (/\ i # j /\ Succeeded(i) /\ Succeeded(j)
           /\ req[i].op = "join" /\ req[j].op = "join")
          => req[i].body.attendee # req[j].body.attendee
    /\ Len(chimeAttendees) =
          Cardinality({i \in Reqs : Succeeded(i) /\ req[i].op = "join"})

\* Two joins of the same title with the same display name have both succeeded
\* and the roster holds an entry for each.
C6_Witness ==
    \E i, j \in Reqs :
        /\ i # j /\ Succeeded(i) /\ Succeeded(j)
        /\ req[i].op = "join" /\ req[j].op = "join"
        /\ req[i].title = req[j].title /\ req[i].name = req[j].name
        /\ {req[i].body.attendee, req[j].body.attendee} \subseteq DOMAIN meetings[req[i].title].attendees
        /\ req[i].body.attendee # req[j].body.attendee

\* C7: once a join that implicitly created its meeting has succeeded, every
\* roster request issued afterwards for that title succeeds with a roster that
\* contains the joining attendee.
C7_RosterAfterImplicitCreate ==
    [][\A i, j \in Reqs :
          (/\ Arrives(i, "roster")
           /\ Succeeded(j) /\ req[j].op = "join" /\ req[j].title = req'[i].title
           /\ "CreateMeeting" \in req[j].sent)
          => (/\ req'[i].status = 200
              /\ req[j].body.attendee \in DOMAIN req'[i].body.roster)]_vars

\* C8: when the last successful recording request of a title was a start, a
\* further start is answered 400 without a provider call and the stored
\* pipelineId and recordMode stay as they are.
C8_SecondStartConflict ==
    [][\A i \in Reqs, t \in Rooms :
          (/\ Arrives(i, "start") /\ req'[i].title = t
           /\ recLog[t] # <<>> /\ Last(recLog[t]) = "start")
          => (/\ req'[i].pc = "done" /\ req'[i].status = 400
              /\ req'[i].sent = {}
              /\ meetings'[t].pipelineId = meetings[t].pipelineId
              /\ meetings'[t].recordMode = meetings[t].recordMode)]_vars

\* Stop requests whose deletion of pipeline p is pending or has succeeded.
DeletionsOf(p) ==
    {i \in Reqs : /\ req[i].op = "stop" /\ req[i].pipe = p
                  /\ (req[i].pc = "deletePipeline" \/ Succeeded(i))}

\* C9: a stop succeeds only directly after a successful start (no other stop
\* has succeeded in between), and no pipeline has two deletions pending or done.
C9_StopOnlyAfterStart ==
    /\ \A t \in Rooms : \A k \in DOMAIN recLog[t] :
          recLog[t][k] = "stop" => (k > 1 /\ recLog[t][k - 1] = "start")
    /\ \A p \in DOMAIN pipelines : Cardinality(DeletionsOf(p)) <= 1

\* C10: a stop for a title without an active recording (no meeting, or a
\* pipelineId that is unset or null) is answered 400 at once, sends nothing to
\* the provider and leaves the meeting table and the provider as they are.
C10_StopWhenNotRecording ==
    [][\A i \in Reqs, t \in Rooms :
          (/\ Arrives(i, "stop") /\ req'[i].title = t
           /\ (MeetingMissing(t) \/ meetings[t].pipelineId \in {Undefined, Null}))
          => (/\ req'[i].pc = "done" /\ req'[i].status = 400
              /\ req'[i].sent = {}
              /\ meetings' = meetings
              /\ pipelines' = pipelines)]_vars

\* A stop was answered 400 without a provider call for a meeting whose
\* recording had been started and stopped before (pipelineId is null).
C10_Witness ==
    \E i \in Reqs :
        /\ req[i].op = "stop" /\ req[i].pc = "done" /\ req[i].status = 400
        /\ req[i].sent = {}
        /\ ~MeetingMissing(req[i].title)
        /\ meetings[req[i].title].pipelineId = Null
FailsAt(i, o, pc) ==
    /\ req[i].op = o /\ req[i].pc = pc
    /\ req'[i].pc = "done" /\ req'[i].status # 200
\* No recording of title t is active: no start has succeeded, or a stop has
\* succeeded after the last successful start.
NoActiveRecording(t) == recLog[t] = <<>> \/ Last(recLog[t]) = "stop"
\* An earlier start for the title of request slot i has been answered 500.
FailedStartBefore(i, t) ==
    \E j \in 1..(i - 1) : /\ req[j].op = "start" /\ req[j].title = t
                          /\ req[j].pc = "done" /\ req[j].status = 500

C13_RecordingCycle ==
    [][\A t \in Titles :
         ~MeetingMissing(t) =>
            LET a == meetings[t].pipelineId
                b == meetings'[t].pipelineId
            IN /\ (\E i \in Reqs : req[i].op = "stop" /\ req[i].title = t
                                   /\ req[i].pc = "deletePipeline" /\ Succeeded(i)')
                     => ~Truthy(b)
               /\ a # b =>
                     \/ ~Truthy(a) /\ ~Truthy(b)
                     \/ /\ ~Truthy(a) /\ Truthy(b)
                        /\ recLog'[t] = Append(recLog[t], "start")
                     \/ /\ Truthy(a) /\ ~Truthy(b)
                        /\ recLog'[t] = Append(recLog[t], "stop")]_vars

\* An earlier stop for title t has been answered 500 and the pipelineId it
\* tried to delete is the one still stored for t.
FailedStopStillStored(i, t) ==
    \E j \in 1..(i - 1) : /\ req[j].op = "stop" /\ req[j].title = t
                          /\ req[j].pc = "done" /\ req[j].status = 500
                          /\ ~MeetingMissing(t) /\ meetings[t].pipelineId = req[j].pipe

\* C14: when the pipeline deletion fails during a stop, the answer is 500 and
\* nothing stored changes (the meeting keeps its pipelineId); while that
\* pipelineId is stored, an arriving start is answered 400 without a provider
\* command and an arriving stop sends the deletion of the same pipelineId.
C14_FailedStopKeepsPipeline ==
    [][\A i \in Reqs :
         /\ FailsAt(i, "stop", "deletePipeline") =>
               /\ req'[i].status = 500
               /\ meetings' = meetings /\ pipelines' = pipelines /\ recLog' = recLog
         /\ (Arrives(i, "start") /\ FailedStopStillStored(i, req'[i].title)) =>
               /\ req'[i].pc = "done" /\ req'[i].status = 400 /\ req'[i].sent = {}
         /\ (Arrives(i, "stop") /\ FailedStopStillStored(i, req'[i].title)) =>
               /\ req'[i].pc = "deletePipeline"
               /\ req'[i].sent = {"DeleteMediaCapturePipeline"}
               /\ req'[i].pipe = meetings[req'[i].title].pipelineId]_vars

\* A stop was answered 500 and a stop that arrived after it sent the deletion
\* of the same pipelineId, which is still the one stored.
C14_Witness ==
    \E j \in Reqs, i \in Reqs :
        /\ j < i
        /\ req[j].op = "stop" /\ req[j].pc = "done" /\ req[j].status = 500
        /\ req[i].op = "stop" /\ req[i].title = req[j].title
        /\ req[i].sent = {"DeleteMediaCapturePipeline"} /\ req[i].pipe = req[j].pipe
        /\ meetings[req[j].title].pipelineId = req[j].pipe

C16_FailedCreateJoinStoresNothing ==
    [][\A i \in Reqs, o \in {"create", "join"}, pc \in {"createMeeting", "createAttendee"} :
         FailsAt(i, o, pc) =>
            /\ req'[i].status = 500
            /\ req'[i].sent = req[i].sent
            /\ meetings' = meetings
            /\ chimeMeetings' = chimeMeetings /\ chimeAttendees' = chimeAttendees]_vars

\* A join that created the meeting failed in createAttendee: it was answered
\* 500 after one call of each command and the roster of its title is empty.
C16_Witness ==
    \E i \in Reqs : /\ req[i].op = "join" /\ req[i].pc = "done" /\ req[i].status = 500
                    /\ req[i].sent = {"CreateMeeting", "CreateAttendee"}
                    /\ ~MeetingMissing(req[i].title)
                    /\ meetings[req[i].title].attendees = EmptyRoster

\* The attendees the provider has reported to the client as no longer present.
ReportedAbsent == {delivered[k].attendee : k \in {j \in DOMAIN delivered : ~delivered[j].present}}

\* C17: once the provider has reported an attendee as no longer present, the
\* roster endpoint stops returning that attendeeId: the roster fetched in the
\* next reconciliation (a roster request arriving after the report) does not
\* contain it.
C17_RosterDropsDeparted ==
    [][\A i \in Reqs :
         (Arrives(i, "roster") /\ req'[i].status = 200) =>
            \A a \in ReportedAbsent : a \notin DOMAIN req'[i].body.roster]_vars

\* Suspended presence handler h resumes in this step with the answer to its
\* roster request and ends.
FetchResponded(h) == handlers[h].slot # 0 /\ handlers' = DropAt(handlers, h)
\* The notifications shown in this step.
Shown == {notifications'[k] : k \in (Len(notifications) + 1)..Len(notifications')}

\* C18 (as stated): when the handler of a present=true event has fetched the
\* roster, it shows a joined notification for exactly the attendeeIds that
\* are in the fetched roster, not in the locally held attendeeRoster and not
\* the client's own: none for an attendee the client already lists.
C18_JoinedForNewcomersOnly ==
    [][\A h \in DOMAIN handlers :
         (FetchResponded(h) /\ req[handlers[h].slot].status = 200) =>
            LET fetched == req[handlers[h].slot].body.roster
                new == (DOMAIN fetched \ DOMAIN attendeeRoster) \ {handlers[h].me}
            IN /\ Len(notifications') = Len(notifications) + Cardinality(new)
               /\ \A a \in new : \E n \in Shown :
                     n.message = <<NameOrSomeone(fetched, a), "joined">>]_vars

\* C18 (amended): when the handler of a present=true event for attendeeId a
\* has fetched the roster, it shows exactly one joined notification, for a
\* itself under the name the fetched roster gives it ("Someone" if none),
\* unless a is the client's own attendeeId, in which case it shows none; the
\* locally held roster is not consulted, and is replaced by the fetched one.
C18_JoinedPerEvent ==
    [][\A h \in DOMAIN handlers :
         (FetchResponded(h) /\ req[handlers[h].slot].status = 200) =>
            LET fetched == req[handlers[h].slot].body.roster
                a == handlers[h].attendee
            IN /\ attendeeRoster' = fetched
               /\ IF a # handlers[h].me
                  THEN notifications' =
                          Append(notifications,
                                 [id |-> clock.now, type |-> "join",
                                  message |-> <<NameOrSomeone(fetched, a), "joined">>])
                  ELSE notifications' = notifications]_vars

\* A joined notification was shown for an attendee of another participant
\* that the Roster of the client's join response already listed, and the
\* client's own present event was handled too.
C18_Witness ==
    /\ client.phase = "subscribed"
    /\ \E k \in DOMAIN delivered, n \in DOMAIN notifications :
          LET a == delivered[k].attendee
          IN /\ delivered[k].present /\ a # client.me
             /\ a \in DOMAIN req[client.joinSlot].body.roster
             /\ notifications[n].type = "join"
             /\ notifications[n].message = <<req[client.joinSlot].body.roster[a], "joined">>
    /\ \E k \in DOMAIN delivered : delivered[k].present /\ delivered[k].attendee = client.me
    /\ handlers = <<>>

\* The provider delivers in this step that attendee a is no longer present.
AbsentDelivered(a) == delivered' = Append(delivered, [attendee |-> a, present |-> FALSE])

\* C19: on a present=false event the left notification carries the name the
\* locally held attendeeRoster gives the attendeeId when the event is
\* processed, "Someone" only if it has no entry for it, and the attendeeId is
\* then removed from attendeeRoster.
C19_LeftCarriesRosterName ==
    [][\A a \in DOMAIN chimeAttendees :
         AbsentDelivered(a) =>
            /\ Shown = {[id |-> clock.now, type |-> "leave",
                         message |-> <<NameOrSomeone(attendeeRoster, a), "left">>]}
            /\ a \notin DOMAIN attendeeRoster']_vars

\* C20: a present=false event for an attendeeId that the locally held
\* attendeeRoster does not contain (the event is processed a second time)
\* completes and leaves attendeeRoster as it is.
C20_RemovalIdempotent ==
    [][\A a \in DOMAIN chimeAttendees :
         (AbsentDelivered(a) /\ a \notin DOMAIN attendeeRoster) =>
            attendeeRoster' = attendeeRoster]_vars

\* The same present=false event has been processed twice: the attendeeId is
\* not in attendeeRoster and the other entries are still there.
C20_Witness ==
    \E j \in DOMAIN delivered, k \in DOMAIN delivered :
        /\ j < k
        /\ ~delivered[j].present /\ delivered[k] = delivered[j]
        /\ delivered[j].attendee \notin DOMAIN attendeeRoster
        /\ client.me \in DOMAIN attendeeRoster
        /\ Len(notifications) = 2

\* C21: the effects of the presence events take place in the order of their
\* delivery: the snapshot replacement and joined notification of a present=true
\* event for attendee a never happen after a present=false event for a has
\* been delivered (and, the handler of present=false being synchronous,
\* processed), so a is not put back into attendeeRoster after its removal.
C21_EffectsInDeliveryOrder ==
    [][\A h \in DOMAIN handlers :
         (FetchResponded(h) /\ req[handlers[h].slot].status = 200) =>
            /\ handlers[h].attendee \notin ReportedAbsent
            /\ \A a \in ReportedAbsent :
                  (a = handlers[h].attendee) => a \notin DOMAIN attendeeRoster']_vars

\* The roster fetch of suspended presence handler h fails in this step.
FetchFailed(h) == handlers[h].slot = 0 /\ handlers' = DropAt(handlers, h)
\* A roster fetch of the client has failed (no join has: none was answered 500).
SomeFetchHasFailed == failures > 0 /\ \A i \in Reqs : req[i].status # 500

\* C22: when the roster fetch of a present=true event fails, the handler ends
\* without a notification and without a change of attendeeRoster, the client
\* stays subscribed, and the events delivered afterwards have their full
\* effect: a present=true event starts a handler, a present=false event shows
\* its notification and removes the attendee.
C22_FetchFailureIsContained ==
    [][/\ \A h \in DOMAIN handlers :
            FetchFailed(h) =>
               /\ notifications' = notifications /\ timers' = timers
               /\ attendeeRoster' = attendeeRoster
               /\ client' = client
               /\ delivered' = delivered
       /\ \A a \in DOMAIN chimeAttendees :
            (SomeFetchHasFailed /\ AbsentDelivered(a)) =>
               /\ Len(notifications') = Len(notifications) + 1
               /\ a \notin DOMAIN attendeeRoster'
       /\ \A a \in DOMAIN chimeAttendees :
            (SomeFetchHasFailed
               /\ delivered' = Append(delivered, [attendee |-> a, present |-> TRUE])) =>
               /\ Len(handlers') = Len(handlers) + 1
               /\ handlers'[Len(handlers')].attendee = a]_vars

\* A roster fetch has failed, nothing was shown for it, and a present=false
\* event was processed with the client still subscribed.
C22_Witness ==
    /\ SomeFetchHasFailed
    /\ client.phase = "subscribed"
    /\ handlers = <<>>
    /\ Len(delivered) = 2 /\ delivered[1].present /\ ~delivered[2].present
    /\ Len(notifications) = 1 /\ notifications[1].type = "leave"
    /\ delivered[2].attendee \notin DOMAIN attendeeRoster

\* The timer callback of a notification runs in this step.
Expires == timers # <<>> /\ timers' = Tail(timers) /\ clock' = clock

\* C23: every pushed notification is removed exactly once, by its own expiry
\* timer: each run of a timer callback removes exactly one notification, the
\* one pushed with it, and no notification is without a pending timer.
C23_ExpiryRemovesOwnNotification ==
    [][/\ Expires => Len(notifications') = Len(notifications) - 1
       /\ Len(notifications') = Len(timers')]_vars

\* C24: the identifiers of the notifications in the queue are strictly
\* increasing in push order, so no two of them share an identifier.
C24_IdentifiersStrictlyIncrease ==
    \A j \in DOMAIN notifications, k \in DOMAIN notifications :
        j < k => notifications[j].id < notifications[k].id

\* What the handler of operation o does in the step a request arrives, as a
\* function of the record md of the request's own title: the position it is
\* suspended at, or "done" and the status of its answer.
ArrivalOutcome(o, md) ==
    CASE o = "create" -> IF md = NoMeeting THEN <<"createMeeting", 0>> ELSE <<"done", 200>>
      [] o = "join"   -> IF md = NoMeeting THEN <<"createMeeting", 0>> ELSE <<"createAttendee", 0>>
      [] o = "roster" -> IF md = NoMeeting THEN <<"done", 404>> ELSE <<"done", 200>>
      [] o = "start"  -> IF md = NoMeeting THEN <<"done", 404>>
                         ELSE IF Truthy(md.pipelineId) THEN <<"done", 400>>
                         ELSE <<"createPipeline", 0>>
      [] o = "stop"   -> IF md = NoMeeting \/ ~Truthy(md.pipelineId) THEN <<"done", 400>>
                         ELSE <<"deletePipeline", 0>>
\* The provider's meetings and capture pipelines that belong to title t.
ProviderPipelinesOf(t) ==
    {p \in DOMAIN pipelines : chimeMeetings[pipelines[p].meeting] = t}

\* C25: a step of a request for title t leaves the record (meeting, roster,
\* recording state), the recording history and the provider's meetings and
\* pipelines of every other title unchanged, and what an arriving request does
\* is determined by the record of its own title alone.
C25_TitlesAreIndependent ==
    [][\A i \in Reqs :
         req'[i] # req[i] =>
            /\ \A u \in Rooms \ {req'[i].title} :
                  /\ meetings'[u] = meetings[u] /\ recLog'[u] = recLog[u]
                  /\ ProviderMeetingsOf(u)' = ProviderMeetingsOf(u)
                  /\ ProviderPipelinesOf(u)' = ProviderPipelinesOf(u)
                  /\ \A p \in ProviderPipelinesOf(u) : pipelines'[p] = pipelines[p]
            /\ req[i].pc = "idle" =>
                  <<req'[i].pc, req'[i].status>> =
                     ArrivalOutcome(req'[i].op, meetings[req'[i].title])]_vars

\* ROOM1 is being recorded and has an attendee in its roster while ROOM2
\* exists with an empty roster and no recording, and a start for ROOM2 is
\* suspended at the provider.
C25_Witness ==
    /\ ~MeetingMissing("ROOM1") /\ ~MeetingMissing("ROOM2")
    /\ Truthy(meetings["ROOM1"].pipelineId)
    /\ meetings["ROOM1"].attendees # EmptyRoster
    /\ meetings["ROOM2"].attendees = EmptyRoster
    /\ \E i \in Reqs : req[i].title = "ROOM2" /\ req[i].pc = "createPipeline"

\* C26: every request that waits for the provider is eventually answered,
\* also when the provider stays silent.
C26_EveryRequestAnswered ==
    \A i \in Reqs : (req[i].pc \notin {"idle", "done"}) ~> (req[i].pc = "done")

\* C27: a create or join request without a title is rejected as invalid in
\* the step it arrives (status 400) without a provider command, and no record
\* is ever stored under the key the missing title turns into.
C27_MissingTitleRejected ==
    [][/\ \A i \in Reqs :
            (/\ Arrives(i, "create") \/ Arrives(i, "join")
             /\ req'[i].title = MissingTitleKey) =>
               /\ req'[i].pc = "done" /\ req'[i].status = 400
               /\ req'[i].sent = {}
       /\ meetings'[MissingTitleKey] = NoMeeting]_vars

\* Join i found the record of its title when it arrived: it sent only the
\* CreateAttendee command.
JoinedExisting(i) == req[i].op = "join" /\ req[i].sent = {"CreateAttendee"}

C29_CreateJoinKeepRecordingState ==
    [][\A i \in Reqs :
         (req'[i] # req[i] /\ req'[i].op \in {"create", "join"}) =>
            \A t \in Titles :
               ~MeetingMissing(t) =>
                  /\ meetings'[t].pipelineId = meetings[t].pipelineId
                  /\ meetings'[t].recordMode = meetings[t].recordMode]_vars

\* The start and stop requests for title t that wait for the provider.
RecordingInFlight(t) ==
    {i \in Reqs : req[i].title = t /\ req[i].pc \in {"createPipeline", "deletePipeline"}}

\* C30: whenever no start or stop for a title is in flight, the stored
\* recording state agrees with the provider: a stored pipelineId names a live
\* pipeline, and when none is stored no pipeline of the title is live.
C30_StoredStateAgreesWithProvider ==
    \A t \in Titles :
        (~MeetingMissing(t) /\ RecordingInFlight(t) = {}) =>
            IF Truthy(meetings[t].pipelineId)
            THEN LivePipeline(meetings[t].pipelineId)
            ELSE LivePipelinesOf(t) = {}

\* C31 (as stated): when the handler of a present=true event has its answer,
\* attendeeRoster becomes the roster of that answer, also when the answer
\* carries none (the title is unknown to the server): the snapshot is replaced
\* in every case.
C31_SnapshotAlwaysReplaced ==
    [][\A h \in DOMAIN handlers :
         FetchResponded(h) => attendeeRoster' = req[handlers[h].slot].body.roster]_vars

\* C31 (amended): when the answer carries a roster, attendeeRoster becomes
\* that roster, the server's roster as of the fetch; when it carries none
\* (404 for a title the server does not know), attendeeRoster and the
\* notifications stay as they are.
C31_SnapshotReplacedByFetchedRoster ==
    [][\A h \in DOMAIN handlers :
         FetchResponded(h) =>
            LET data == req[handlers[h].slot]
            IN IF data.status = 200
               THEN attendeeRoster' = data.body.roster
               ELSE /\ data.status = 404
                    /\ attendeeRoster' = attendeeRoster
                    /\ notifications' = notifications]_vars

\* The server was restarted while the client was in the call; the roster
\* fetch of a present=true event was answered 404, the handler has ended and
\* the client still holds the roster it had.
C31_Witness ==
    /\ client.phase = "subscribed" /\ handlers = <<>> /\ failures = 0
    /\ \E k \in DOMAIN delivered : delivered[k].present
    /\ \E i \in Reqs : req[i].op = "roster" /\ req[i].pc = "done" /\ req[i].status = 404
    /\ \A i \in Reqs : req[i].op = "roster" => req[i].status = 404
    /\ client.me \in DOMAIN attendeeRoster

\* C32: the client shows no joined notification for its own attendeeId.  The
\* handler of a present=true event compares the event's attendeeId with the
\* Attendee of the join answer its session was initialised with, and every
\* joined notification shown is for an event about another attendeeId.
C32_NoJoinedForSelf ==
    [][/\ \A a \in DOMAIN chimeAttendees :
            delivered' = Append(delivered, [attendee |-> a, present |-> TRUE]) =>
               /\ Succeeded(client.joinSlot)
               /\ handlers'[Len(handlers')].me = req[client.joinSlot].body.attendee
       /\ \A h \in DOMAIN handlers :
            (FetchResponded(h) /\ handlers[h].attendee = handlers[h].me) =>
               notifications' = notifications
       /\ \A n \in Shown :
            n.type = "join" =>
               \E h \in DOMAIN handlers :
                  /\ FetchResponded(h) /\ handlers[h].attendee # handlers[h].me
                  /\ n.message = <<NameOrSomeone(req[handlers[h].slot].body.roster,
                                                 handlers[h].attendee), "joined">>]_vars

\* The provider has delivered the client's own present=true event twice, both
\* handlers have fetched the roster and ended, and nothing was shown.
C32_Witness ==
    /\ client.phase = "subscribed" /\ handlers = <<>> /\ failures = 0
    /\ Len(delivered) = 2
    /\ \A k \in DOMAIN delivered : delivered[k].present /\ delivered[k].attendee = client.me
    /\ notifications = <<>>

\* C33: while the client is in a call and none of its recording requests is
\* in flight, its isRecording flag equals the server's recording status of
\* its room (a pipelineId is stored for the title).
C33_FlagEqualsServerStatus ==
    (InCall /\ client.recSlot = 0) =>
        (client.isRecording <=> AlreadyRecording(meetings[client.roomId]))

\* C34: the Roster of a successful join answer maps the Attendee of the
\* answer to the name submitted in the request, the Meeting of the answer is
\* a meeting the provider made for the request's title, and the Attendee was
\* created in that meeting.
C34_JoinAnswerConsistent ==
    \A i \in Reqs :
        (Succeeded(i) /\ req[i].op = "join") =>
            LET b == req[i].body
            IN /\ b.attendee \in DOMAIN b.roster
               /\ b.roster[b.attendee] = req[i].name
               /\ b.meeting \in ProviderMeetingsOf(req[i].title)
               /\ b.attendee \in DOMAIN chimeAttendees
               /\ chimeAttendees[b.attendee] = b.meeting

\* A join has succeeded although the record of its title was replaced while
\* it waited for the provider: the table holds another meeting than the one
\* of the answer.
C34_Witness ==
    \E i \in Reqs :
        /\ Succeeded(i) /\ req[i].op = "join"
        /\ meetings[req[i].title] # NoMeeting
        /\ meetings[req[i].title].meeting # req[i].body.meeting

\* C35: the artifact configuration of the pipeline a start creates depends on
\* the mode alone.  Mode 'grid': audio-only audio, video and content disabled,
\* a composited grid view with presenter-only content layout.  Any other mode
\* value, a missing one included: audio-only, video-only and content-only
\* streams and no composited view.  The recordMode stored is the request's mode.
C35_ArtifactsFollowMode ==
    [][\A i \in Reqs :
          (req[i].pc = "createPipeline" /\ req'[i].pc = "done" /\ req'[i].status = 200) =>
             /\ Len(pipelines') = Len(pipelines) + 1
             /\ Last(pipelines').artifacts =
                   IF req[i].mode = "grid"
                   THEN [Audio |-> "AudioOnly", Video |-> "Disabled", Content |-> "Disabled",
                         CompositedVideo |-> "GridView/HD/PresenterOnly"]
                   ELSE [Audio |-> "AudioOnly", Video |-> "VideoOnly", Content |-> "ContentOnly",
                         CompositedVideo |-> "none"]
             /\ meetings'[req[i].title].recordMode = req[i].mode]_vars

\* Recordings were started with mode 'grid', with a mode that is neither
\* 'raw' nor 'grid', and without a mode; the last is the one now stored.
C35_Witness ==
    /\ \E i \in Reqs : Succeeded(i) /\ req[i].op = "start" /\ req[i].mode = "grid"
    /\ \E i \in Reqs : Succeeded(i) /\ req[i].op = "start" /\ req[i].mode = "speaker"
    /\ \E i \in Reqs : /\ Succeeded(i) /\ req[i].op = "start" /\ req[i].mode = MissingMode
                       /\ meetings[req[i].title] # NoMeeting
                       /\ meetings[req[i].title].pipelineId = req[i].body.pipelineId
                       /\ meetings[req[i].title].recordMode = MissingMode

====
